---- MODULE Spec2Model ----
(***************************************************************************)
(* LexiMind (src/App.tsx, src/services/gemini.ts): the App component's     *)
(* state, its event handlers and the continuations of their awaits, as one *)
(* state machine.                                                          *)
(*                                                                         *)
(* One action is one run-to-completion step of the JavaScript event loop:  *)
(* either a user event with the synchronous part of its handler (up to the *)
(* first await), or the arrival of a service response with the             *)
(* continuation it resumes (up to the next pending await or the end of the *)
(* handler, finally blocks included).                                      *)
(*                                                                         *)
(* JavaScript indices are 0-based and TLA+ sequences 1-based: gallery[i]   *)
(* of the source is gallery[i + 1] here; activeImageIndex keeps the        *)
(* source's 0-based value.                                                 *)
(***************************************************************************)
EXTENDS Integers, Sequences, FiniteSets, TLC

(***************************************************************************)
(* Bounds of the model.                                                    *)
(***************************************************************************)
\* searches started in one run
MaxSearches == 2
\* gallery length at which no further variation is requested
MaxGallery == 3
\* saved items at which no further item is added
MaxSaved == 2
\* largest reading of the millisecond clock
MaxClock == 1
\* 'max 8': the words generateStoryFromWords keeps            gemini.ts:151
MaxStoryWords == 8
\* chat transcript length a submitted message and its reply may reach
MaxChat == 2

(***************************************************************************)
(* Values.                                                                 *)
(***************************************************************************)
\* null / undefined, and a present value v: an option is a sequence of
\* length at most one
Null == <<>>
Some(v) == <<v>>

\* the empty object {}
EmptyMap == [u \in {} |-> "like"]

\* characters of the text inputs (query, chatInput)
Chars == {" ", "a"}
\* what the user types into the search box
QueryInputs == {<<" ">>, <<"a">>}
\* what the user types into the chat box
ChatInputs == {<<>>, <<"a">>}
\* the words the definition service answers with ("corrected if misspelled")
Words == {"gato", "perro"}
\* the definitions the definition service answers with
Definitions == {"d1"}
\* the base64 payloads the image service answers with
ImageBytes == {"", "A", "B"}
\* the reply texts of the chat service ("" is an empty reply)
ReplyTexts == {"", "r"}
\* the additional-meanings lists the service answers with
MeaningLists == {<<>>, <<"m1", "m2", "m3">>}

VARIABLES
    view,               \* 'search' | 'wordbook'               App.tsx:55
    query,              \* search box text                     App.tsx:56
    wordData,           \* WordDefinition | null               App.tsx:63
    gallery,            \* string[]                            App.tsx:64
    activeImageIndex,   \* number                              App.tsx:65
    additionalMeanings, \* AdditionalMeaning[] | null          App.tsx:66
    imageFeedbacks,     \* Record<string, 'like' | 'dislike'>  App.tsx:67
    savedItems,         \* SavedItem[]                         App.tsx:70
    loadingWord,        \*                                     App.tsx:84
    loadingImage,       \*                                     App.tsx:85
    loadingMoreMeanings,\*                                     App.tsx:87
    loadingNewImage,    \*                                     App.tsx:88
    isChatOpen,         \*                                     App.tsx:91
    chatMessages,       \* ChatMessage[]                       App.tsx:92
    chatInput,          \*                                     App.tsx:93
    isChatSending,      \*                                     App.tsx:94
    targetLanguage,     \* SupportedLanguage                   App.tsx:59
    nativeLanguage,     \* SupportedLanguage                   App.tsx:60
    loadingAudio,       \*                                     App.tsx:86
    revealed,           \* the QuizBlank components of the story section
                        \* whose 'revealed' state is true, by their
                        \* key (position among the parts)      App.tsx:37
    storyQuiz,          \* StoryQuiz | null                    App.tsx:80
    loadingStory,       \*                                     App.tsx:81
    appState,           \* the React root: 'unmounted' before the first
                        \* render, 'running', 'renderError' or
                        \* 'effectError' once an exception has escaped a
                        \* render or an effect (the tree is unmounted)
    stored,             \* localStorage 'leximind_saved': absent or a text
    searchTasks,        \* the handleSearch invocations with a request in
                        \* flight: the search that started each (gen),
                        \* where it is suspended (pc), its imagePromise
    varTask,            \* the handleGenerateNewImage invocation in flight
    meanTask,           \* the handleLoadMoreMeanings invocation in flight
    chatTask,           \* the handleChatSubmit invocation in flight
    storyTasks,         \* the handleGenerateStory invocations in flight
    audioTask,          \* the handleAudioPlay invocation in flight
    searchGen,          \* history: the number of searches started
    detailsResult,      \* history: how the definition request of the
                        \* latest search ended
    imageResult,        \* history: what the image request of the latest
                        \* search returned
    wordGen,            \* history: the search whose response set wordData
    galleryGen,         \* history: per gallery entry, the search under
                        \* which its image request was issued
    chatInFlight,       \* history: the chatAboutWord promises not settled
    streak              \* history: n >= 0 when, since the latest search
                        \* was submitted, only its own responses and n
                        \* request-and-success rounds of variations have
                        \* happened; -1 otherwise

sessionVars == <<wordData, gallery, activeImageIndex, additionalMeanings,
                 imageFeedbacks, chatMessages, isChatOpen>>
loadingVars == <<loadingWord, loadingImage, loadingMoreMeanings,
                 loadingNewImage, isChatSending>>
taskVars == <<searchTasks, varTask, meanTask, chatTask>>
historyVars == <<searchGen, detailsResult, imageResult, wordGen, galleryGen>>
storyVars == <<storyQuiz, loadingStory, storyTasks>>
persistVars == <<appState, stored>>
languageVars == <<targetLanguage, nativeLanguage>>
audioVars == <<loadingAudio, audioTask>>
vars == <<view, query, chatInput, savedItems, sessionVars, loadingVars,
          taskVars, historyVars, storyVars, persistVars, languageVars,
          audioVars, revealed, chatInFlight, streak>>

(***************************************************************************)
(* String.prototype.trim on a sequence of characters.                      *)
(***************************************************************************)
RECURSIVE TrimStart(_)
TrimStart(s) ==
    IF s # <<>> /\ Head(s) = " " THEN TrimStart(Tail(s)) ELSE s

RECURSIVE TrimEnd(_)
TrimEnd(s) ==
    IF s # <<>> /\ s[Len(s)] = " " THEN TrimEnd(SubSeq(s, 1, Len(s) - 1))
    ELSE s

Trim(s) == TrimEnd(TrimStart(s))

(***************************************************************************)
(* The service responses, and what the gateway functions make of them.     *)
(***************************************************************************)
\* generateContent for a definition: a rejected call, a response without
\* text, a text JSON.parse rejects, or the text of a WordDefinition
DetailsResponses ==
    {[kind |-> "error"], [kind |-> "notext"], [kind |-> "malformed"]}
    \cup {[kind |-> "text", value |-> [word |-> w, definition |-> d]] :
             w \in Words, d \in Definitions}

\* getWordDetails: the resolved WordDefinition, or Null when the promise
\* rejects
GetWordDetails(resp) ==
    IF resp.kind = "text" THEN Some(resp.value) ELSE Null

\* generateImages: a rejected call, a response without generatedImages, or
\* image bytes
ImageResponses ==
    {[kind |-> "error"], [kind |-> "noimage"]}
    \cup {[kind |-> "bytes", value |-> b] : b \in ImageBytes}

\* generateWordImage: never rejects; the data URL, or "" on any failure
GenerateWordImage(resp) ==
    IF resp.kind = "bytes" /\ resp.value # ""
    THEN "data:image/jpeg;base64," \o resp.value
    ELSE ""

\* the image references generateWordImage can return
ImageRefs == {GenerateWordImage(r) : r \in ImageResponses} \ {""}

(***************************************************************************)
(* Derived values of a render.                                             *)
(***************************************************************************)
\* const currentImage = gallery[activeImageIndex]: Null when undefined
currentImage ==
    IF activeImageIndex + 1 \in DOMAIN gallery
    THEN Some(gallery[activeImageIndex + 1])
    ELSE Null

\* a JavaScript string option is truthy
Truthy(o) == o # Null /\ o[1] # ""

\* savedItems.some(item => item.imageUrl === currentImage &&
\*                         item.word === wordData?.word)
isCurrentSaved ==
    \E i \in DOMAIN savedItems :
        /\ currentImage # Null /\ savedItems[i].imageUrl = currentImage[1]
        /\ wordData # Null /\ savedItems[i].word = wordData[1].word

(***************************************************************************)
(* Local storage and JSON.  A text is modelled by what JSON.parse makes of *)
(* it: the empty string, a text JSON.parse throws on, or a document.  A    *)
(* document is null, an object, a string, a number or an array of          *)
(* documents.                                                              *)
(***************************************************************************)
JsonString(s) == [type |-> "string", value |-> s]
JsonNumber(n) == [type |-> "number", value |-> n]

\* JSON.stringify of one SavedItem: an object with the item's five members
StringifyItem(item) ==
    [type |-> "object",
     members |-> [id |-> JsonString(item.id),
                  word |-> JsonString(item.word),
                  imageUrl |-> JsonString(item.imageUrl),
                  definition |-> JsonString(item.definition),
                  timestamp |-> JsonNumber(item.timestamp)]]

\* JSON.stringify(savedItems)
Stringify(items) ==
    [kind |-> "json",
     doc |-> [type |-> "array",
              elems |-> [i \in DOMAIN items |-> StringifyItem(items[i])]]]

\* JSON.parse of an array of flat objects: the array of their member values
ParseItems(doc) ==
    [i \in DOMAIN doc.elems |->
        [f \in DOMAIN doc.elems[i].members |->
            doc.elems[i].members[f].value]]

\* the initializer of savedItems:
\*   try { const local = localStorage.getItem('leximind_saved');
\*         return local ? JSON.parse(local) : [] } catch { return [] }
\* as the document the state starts with
HydratedDoc(st) ==
    IF st = Null THEN [type |-> "array", elems |-> <<>>]
    ELSE IF st[1].kind = "empty" THEN [type |-> "array", elems |-> <<>>]
    ELSE IF st[1].kind = "garbage" THEN [type |-> "array", elems |-> <<>>]
    ELSE st[1].doc

\* the render reads savedItems.length, savedItems.some(...) and
\* savedItems.map(...): it throws unless the state is an array
Hydrate(st) ==
    IF HydratedDoc(st).type = "array"
    THEN Some(ParseItems(HydratedDoc(st)))
    ELSE Null

\* a collection saved by an earlier run
StoredItems ==
    {<<>>,
     <<[id |-> "0", word |-> "gato", definition |-> "d1",
        imageUrl |-> "data:image/jpeg;base64,A", timestamp |-> 0]>>}

\* what local storage holds when the application starts: nothing, the
\* empty string, a text that is not JSON, 'null', '{}', or a collection
StoredValues ==
    {Null, Some([kind |-> "empty"]), Some([kind |-> "garbage"]),
     Some([kind |-> "json", doc |-> [type |-> "null"]]),
     Some([kind |-> "json", doc |-> [type |-> "object"]])}
    \cup {Some(Stringify(items)) : items \in StoredItems}

\* localStorage.setItem returns, or throws (QuotaExceededError,
\* SecurityError)
WriteOutcomes == {"ok", "throws"}

\* useEffect(() => { localStorage.setItem('leximind_saved',
\*     JSON.stringify(savedItems)) }, [savedItems]), run after a render in
\* which savedItems is a new array; an exception it throws unmounts the tree
PersistEffect(items, w) ==
    IF w = "ok"
    THEN stored' = Some(Stringify(items)) /\ appState' = "running"
    ELSE stored' = stored /\ appState' = "effectError"

(***************************************************************************)
(* Init: the state after the first render and its effects, local storage   *)
(* holding nothing before.                                                 *)
(***************************************************************************)
\* the useState initial values, view, savedItems and storyQuiz apart, with
\* no request in flight
IdleState ==
    /\ query = <<>>
    /\ wordData = Null
    /\ gallery = <<>>
    /\ activeImageIndex = 0
    /\ additionalMeanings = Null
    /\ imageFeedbacks = EmptyMap
    /\ targetLanguage = "Spanish"
    /\ nativeLanguage = "English"
    /\ loadingStory = FALSE
    /\ revealed = {}
    /\ loadingWord = FALSE
    /\ loadingAudio = FALSE
    /\ audioTask = Null
    /\ loadingImage = FALSE
    /\ loadingMoreMeanings = FALSE
    /\ loadingNewImage = FALSE
    /\ isChatOpen = FALSE
    /\ chatMessages = <<>>
    /\ chatInput = <<>>
    /\ isChatSending = FALSE
    /\ searchTasks = {}
    /\ varTask = Null
    /\ meanTask = Null
    /\ chatTask = Null
    /\ storyTasks = <<>>
    /\ searchGen = 0
    /\ detailsResult = "none"
    /\ imageResult = Null
    /\ wordGen = 0
    /\ galleryGen = <<>>
    /\ chatInFlight = 0
    /\ streak = -1

\* the useState initial values, view and savedItems apart
InitialState ==
    /\ IdleState
    /\ storyQuiz = Null

Init ==
    /\ InitialState
    /\ view = "search"
    /\ savedItems = <<>>
    /\ appState = "running"
    /\ stored = Some(Stringify(<<>>))

\* before the first render: local storage holds any of StoredValues
BootInit ==
    /\ InitialState
    /\ view = "search"
    /\ savedItems = <<>>
    /\ appState = "unmounted"
    /\ stored \in StoredValues

\* the first render and its effects: savedItems is hydrated, the render
\* throws if it is not an array, and the persistence effect runs
Mount ==
    /\ appState = "unmounted"
    /\ IF Hydrate(stored) = Null
       THEN /\ appState' = "renderError"
            /\ UNCHANGED <<savedItems, stored>>
       ELSE /\ savedItems' = Hydrate(stored)[1]
            /\ \E w \in WriteOutcomes : PersistEffect(savedItems', w)
    /\ UNCHANGED <<view, query, chatInput, sessionVars, loadingVars,
                   taskVars, historyVars, storyVars, languageVars,
                   audioVars, revealed, chatInFlight, streak>>

(***************************************************************************)
(* The search box and the two views.                                       *)
(***************************************************************************)
\* onChange of the search input: setQuery(e.target.value)
SetQuery(q) ==
    /\ appState = "running"
    /\ view = "search"
    /\ query' = q
    /\ UNCHANGED <<view, chatInput, savedItems, sessionVars,
                   loadingVars, taskVars, historyVars>>
    /\ UNCHANGED <<storyVars, persistVars, chatInFlight>>
    /\ UNCHANGED <<languageVars, audioVars, revealed>>
    /\ streak' = -1

\* a wordbook button that also empties the chat transcript
ToggleWordbookClearingChat ==
    /\ appState = "running"
    /\ view' = (IF view = "wordbook" THEN "search" ELSE "wordbook")
    /\ chatMessages' = <<>>
    /\ UNCHANGED <<query, chatInput, savedItems, wordData, gallery,
                   activeImageIndex, additionalMeanings, imageFeedbacks,
                   isChatOpen, loadingVars, taskVars, historyVars>>
    /\ UNCHANGED <<storyVars, persistVars, chatInFlight>>
    /\ UNCHANGED <<languageVars, audioVars>>
    /\ revealed' = {}
    /\ streak' = -1

\* the wordbook button: setView(view === 'wordbook' ? 'search' : 'wordbook')
ToggleWordbook ==
    /\ appState = "running"
    /\ view' = (IF view = "wordbook" THEN "search" ELSE "wordbook")
    /\ UNCHANGED <<query, chatInput, savedItems, sessionVars,
                   loadingVars, taskVars, historyVars>>
    /\ UNCHANGED <<storyVars, persistVars, chatInFlight>>
    /\ UNCHANGED <<languageVars, audioVars>>
    /\ revealed' = {}
    /\ streak' = -1

\* the logo button and the 'Start searching' link: setView('search')
GoToSearch ==
    /\ appState = "running"
    /\ view = "wordbook"
    /\ view' = "search"
    /\ UNCHANGED <<query, chatInput, savedItems, sessionVars,
                   loadingVars, taskVars, historyVars>>
    /\ UNCHANGED <<storyVars, persistVars, chatInFlight>>
    /\ UNCHANGED <<languageVars, audioVars>>
    /\ revealed' = {}
    /\ streak' = -1

(***************************************************************************)
(* handleSearch.                                                           *)
(***************************************************************************)
\* the submit button of the search form is enabled:
\* disabled={!query.trim() || loadingWord}
SearchEnabled == Trim(query) # <<>> /\ ~loadingWord

\* a reset that forgets setChatMessages([])
ResetSessionKeepingChat ==
    /\ loadingWord' = TRUE
    /\ loadingImage' = TRUE
    /\ wordData' = Null
    /\ gallery' = <<>>
    /\ activeImageIndex' = 0
    /\ additionalMeanings' = Null
    /\ imageFeedbacks' = EmptyMap
    /\ chatMessages' = chatMessages
    /\ isChatOpen' = FALSE

\* '// Reset all states': the setters of lines 108-116
ResetSession ==
    /\ loadingWord' = TRUE
    /\ loadingImage' = TRUE
    /\ wordData' = Null
    /\ gallery' = <<>>
    /\ activeImageIndex' = 0
    /\ additionalMeanings' = Null
    /\ imageFeedbacks' = EmptyMap
    /\ chatMessages' = <<>>
    /\ isChatOpen' = FALSE

\* a search that starts from an empty collection
HandleSearchClearingCollection ==
    /\ appState = "running"
    /\ view = "search"
    /\ SearchEnabled
    /\ Trim(query) # <<>>
    /\ searchGen < MaxSearches
    /\ view' = "search"
    /\ ResetSession
    /\ searchGen' = searchGen + 1
    /\ searchTasks' = searchTasks \cup
           {[gen |-> searchGen + 1, pc |-> "awaitDetails", img |-> Null]}
    /\ detailsResult' = "pending"
    /\ imageResult' = Null
    /\ wordGen' = 0
    /\ galleryGen' = <<>>
    /\ UNCHANGED <<query, chatInput, loadingMoreMeanings,
                   loadingNewImage, isChatSending, varTask, meanTask,
                   chatTask>>
    /\ UNCHANGED <<storyVars, persistVars, chatInFlight>>
    /\ UNCHANGED <<languageVars, audioVars, revealed>>
    /\ savedItems' = <<>>
    /\ streak' = 0

\* the submit of the search form, up to 'await detailsPromise': both
\* requests are issued
HandleSearch ==
    /\ appState = "running"
    /\ view = "search"
    /\ SearchEnabled
    /\ Trim(query) # <<>>
    /\ searchGen < MaxSearches
    /\ view' = "search"
    /\ ResetSession
    /\ searchGen' = searchGen + 1
    /\ searchTasks' = searchTasks \cup
           {[gen |-> searchGen + 1, pc |-> "awaitDetails", img |-> Null]}
    /\ detailsResult' = "pending"
    /\ imageResult' = Null
    /\ wordGen' = 0
    /\ galleryGen' = <<>>
    /\ UNCHANGED <<query, chatInput, savedItems, loadingMoreMeanings,
                   loadingNewImage, isChatSending, varTask, meanTask,
                   chatTask>>
    /\ UNCHANGED <<storyVars, persistVars, chatInFlight>>
    /\ UNCHANGED <<languageVars, audioVars, revealed>>
    /\ streak' = 0

\* a commit without 'if (img)'
CommitImageUnchecked(g, img) ==
    /\ gallery' = <<img>>
    /\ galleryGen' = <<g>>
    /\ loadingWord' = FALSE
    /\ loadingImage' = FALSE

\* 'const img = await imagePromise; if (img) setGallery([img])' and the
\* finally block, for the search numbered g and its image reference img
CommitImage(g, img) ==
    /\ gallery' = (IF img # "" THEN <<img>> ELSE gallery)
    /\ galleryGen' = (IF img # "" THEN <<g>> ELSE galleryGen)
    /\ loadingWord' = FALSE
    /\ loadingImage' = FALSE

\* the definition response of the search task t arrives:
\* 'await detailsPromise' resumes, or throws into catch and finally
DetailsArrive(t, resp) ==
    /\ appState = "running"
    /\ t \in searchTasks
    /\ t.pc = "awaitDetails"
    /\ LET details == GetWordDetails(resp)
       IN  /\ detailsResult' =
                  (IF t.gen # searchGen THEN detailsResult
                   ELSE IF details = Null THEN "rejected" ELSE "resolved")
           /\ IF details = Null
              THEN \* catch, finally; the image request stays in flight
                   /\ loadingWord' = FALSE
                   /\ loadingImage' = FALSE
                   /\ searchTasks' =
                          (searchTasks \ {t}) \cup
                          (IF t.img = Null
                           THEN {[t EXCEPT !.pc = "returned"]} ELSE {})
                   /\ UNCHANGED <<wordData, wordGen, gallery, galleryGen>>
              ELSE /\ wordData' = details
                   /\ wordGen' = t.gen
                   /\ IF t.img = Null
                      THEN \* suspended at 'await imagePromise'
                           /\ loadingWord' = FALSE
                           /\ searchTasks' =
                                  (searchTasks \ {t}) \cup
                                  {[t EXCEPT !.pc = "awaitImage"]}
                           /\ UNCHANGED <<loadingImage, gallery, galleryGen>>
                      ELSE \* the image promise is already settled
                           /\ CommitImage(t.gen, t.img[1])
                           /\ searchTasks' = searchTasks \ {t}
    /\ UNCHANGED <<view, query, chatInput, savedItems, activeImageIndex,
                   additionalMeanings, imageFeedbacks, chatMessages,
                   isChatOpen, loadingMoreMeanings, loadingNewImage,
                   isChatSending, varTask, meanTask, chatTask, searchGen,
                   imageResult>>
    /\ UNCHANGED <<storyVars, persistVars, chatInFlight>>
    /\ UNCHANGED <<languageVars, audioVars, revealed>>
    /\ streak' = (IF t.gen = searchGen THEN streak ELSE -1)

\* the image response of the search task t arrives: imagePromise settles,
\* and 'await imagePromise' resumes if the handler is suspended there
ImageArrive(t, resp) ==
    /\ appState = "running"
    /\ t \in searchTasks
    /\ t.img = Null
    /\ LET img == GenerateWordImage(resp)
       IN  /\ imageResult' =
                  (IF t.gen = searchGen THEN Some(img) ELSE imageResult)
           /\ CASE t.pc = "awaitImage" ->
                     /\ CommitImage(t.gen, img)
                     /\ searchTasks' = searchTasks \ {t}
                [] t.pc = "awaitDetails" ->
                     \* nothing awaits the promise yet
                     /\ searchTasks' =
                            (searchTasks \ {t}) \cup
                            {[t EXCEPT !.img = Some(img)]}
                     /\ UNCHANGED <<gallery, galleryGen, loadingWord,
                                    loadingImage>>
                [] t.pc = "returned" ->
                     \* the handler left through catch: nothing awaits it
                     /\ searchTasks' = searchTasks \ {t}
                     /\ UNCHANGED <<gallery, galleryGen, loadingWord,
                                    loadingImage>>
    /\ UNCHANGED <<view, query, chatInput, savedItems, wordData,
                   activeImageIndex, additionalMeanings, imageFeedbacks,
                   chatMessages, isChatOpen, loadingMoreMeanings,
                   loadingNewImage, isChatSending, varTask, meanTask,
                   chatTask, searchGen, detailsResult, wordGen>>
    /\ UNCHANGED <<storyVars, persistVars, chatInFlight>>
    /\ UNCHANGED <<languageVars, audioVars, revealed>>
    /\ streak' = (IF t.gen = searchGen THEN streak ELSE -1)

(***************************************************************************)
(* handleGenerateNewImage and the thumbnails.                              *)
(***************************************************************************)
\* the 'GENERATE VARIATION' button, up to 'await generateWordImage(...)'
HandleGenerateNewImage ==
    /\ appState = "running"
    /\ view = "search"
    /\ wordData # Null
    /\ ~loadingNewImage
    /\ Len(gallery) < MaxGallery
    /\ loadingNewImage' = TRUE
    /\ varTask' = Some([gen |-> searchGen])
    /\ UNCHANGED <<view, query, chatInput, savedItems, sessionVars,
                   loadingWord, loadingImage, loadingMoreMeanings,
                   isChatSending, searchTasks, meanTask, chatTask,
                   historyVars>>
    /\ UNCHANGED <<storyVars, persistVars, chatInFlight>>
    /\ UNCHANGED <<languageVars, audioVars, revealed>>
    /\ streak' = (IF searchTasks = {} THEN streak ELSE -1)

\* an append that leaves the active index alone
AppendVariationKeepingIndex(newImg, g) ==
    /\ gallery' = Append(gallery, newImg)
    /\ galleryGen' = Append(galleryGen, g)
    /\ activeImageIndex' = activeImageIndex

\* 'if (newImg) { setGallery(prev => [...prev, newImg]);
\*                setActiveImageIndex(prev => prev + 1) }'
AppendVariation(newImg, g) ==
    /\ gallery' = Append(gallery, newImg)
    /\ galleryGen' = Append(galleryGen, g)
    /\ activeImageIndex' = activeImageIndex + 1

\* the response to the variation request arrives: the await resumes
NewImageArrive(resp) ==
    /\ appState = "running"
    /\ varTask # Null
    /\ LET newImg == GenerateWordImage(resp)
       IN  IF newImg # ""
           THEN AppendVariation(newImg, varTask[1].gen)
           ELSE UNCHANGED <<gallery, galleryGen, activeImageIndex>>
    /\ loadingNewImage' = FALSE
    /\ varTask' = Null
    /\ UNCHANGED <<view, query, chatInput, savedItems, wordData,
                   additionalMeanings, imageFeedbacks, chatMessages,
                   isChatOpen, loadingWord, loadingImage,
                   loadingMoreMeanings, isChatSending, searchTasks, meanTask,
                   chatTask, searchGen, detailsResult, imageResult, wordGen>>
    /\ UNCHANGED <<storyVars, persistVars, chatInFlight>>
    /\ UNCHANGED <<languageVars, audioVars, revealed>>
    /\ streak' = (IF /\ streak >= 0
                     /\ GenerateWordImage(resp) # ""
                     /\ varTask[1].gen = searchGen
                  THEN streak + 1 ELSE -1)

\* a thumbnail: onClick={() => setActiveImageIndex(idx)}
SelectThumbnail(idx) ==
    /\ appState = "running"
    /\ view = "search"
    /\ wordData # Null
    /\ Len(gallery) > 1
    /\ idx \in 0 .. Len(gallery) - 1
    /\ activeImageIndex' = idx
    /\ UNCHANGED <<view, query, chatInput, savedItems, wordData, gallery,
                   additionalMeanings, imageFeedbacks, chatMessages,
                   isChatOpen, loadingVars, taskVars, historyVars>>
    /\ UNCHANGED <<storyVars, persistVars, chatInFlight>>
    /\ UNCHANGED <<languageVars, audioVars, revealed>>
    /\ streak' = -1

(***************************************************************************)
(* toggleFeedback.                                                         *)
(***************************************************************************)
\* an updater that never deletes an entry
ToggledFeedbacksNeverCleared(prev, currentUrl, type) ==
    [u \in DOMAIN prev \cup {currentUrl} |->
        IF u = currentUrl THEN type ELSE prev[u]]

\* the updater of setImageFeedbacks
ToggledFeedbacks(prev, currentUrl, type) ==
    IF currentUrl \in DOMAIN prev /\ prev[currentUrl] = type
    THEN [u \in DOMAIN prev \ {currentUrl} |-> prev[u]]
    ELSE [u \in DOMAIN prev \cup {currentUrl} |->
              IF u = currentUrl THEN type ELSE prev[u]]

\* the thumbs-up and thumbs-down buttons
ToggleFeedback(type) ==
    /\ appState = "running"
    /\ view = "search"
    /\ wordData # Null
    /\ Truthy(currentImage)
    /\ imageFeedbacks' = ToggledFeedbacks(imageFeedbacks, currentImage[1], type)
    /\ UNCHANGED <<view, query, chatInput, savedItems, wordData, gallery,
                   activeImageIndex, additionalMeanings, chatMessages,
                   isChatOpen, loadingVars, taskVars, historyVars>>
    /\ UNCHANGED <<storyVars, persistVars, chatInFlight>>
    /\ UNCHANGED <<languageVars, audioVars, revealed>>
    /\ streak' = -1

(***************************************************************************)
(* handleLoadMoreMeanings.                                                 *)
(***************************************************************************)
\* generateContent for the additional meanings
MeaningsResponses ==
    {[kind |-> "error"], [kind |-> "notext"], [kind |-> "malformed"]}
    \cup {[kind |-> "text", value |-> m] : m \in MeaningLists}

\* a gateway that rejects when the response has no text
GetAdditionalMeaningsRejectingEmpty(resp) ==
    CASE resp.kind = "text" -> Some(resp.value)
      [] OTHER -> Null

\* getAdditionalMeanings: the resolved list, or Null when the promise rejects
GetAdditionalMeanings(resp) ==
    CASE resp.kind = "notext" -> Some(<<>>)
      [] resp.kind = "text" -> Some(resp.value)
      [] OTHER -> Null

\* a button that is shown whatever additionalMeanings holds
MeaningsButtonAlwaysShown == ~loadingMoreMeanings

\* the 'Reveal Secrets' button is rendered and enabled:
\* {!additionalMeanings && <button disabled={loadingMoreMeanings} ...>}
MeaningsButtonEnabled == additionalMeanings = Null /\ ~loadingMoreMeanings

\* the 'Reveal Secrets' button, up to 'await getAdditionalMeanings(...)'
HandleLoadMoreMeanings ==
    /\ appState = "running"
    /\ view = "search"
    /\ wordData # Null
    /\ MeaningsButtonEnabled
    /\ loadingMoreMeanings' = TRUE
    /\ meanTask' = Some([gen |-> searchGen])
    /\ UNCHANGED <<view, query, chatInput, savedItems, sessionVars,
                   loadingWord, loadingImage, loadingNewImage, isChatSending,
                   searchTasks, varTask, chatTask, historyVars>>
    /\ UNCHANGED <<storyVars, persistVars, chatInFlight>>
    /\ UNCHANGED <<languageVars, audioVars, revealed>>
    /\ streak' = -1

\* the response to the additional-meanings request arrives
MeaningsArrive(resp) ==
    /\ appState = "running"
    /\ meanTask # Null
    /\ LET meanings == GetAdditionalMeanings(resp)
       IN  IF meanings # Null
           THEN additionalMeanings' = meanings
           ELSE UNCHANGED additionalMeanings
    /\ loadingMoreMeanings' = FALSE
    /\ meanTask' = Null
    /\ UNCHANGED <<view, query, chatInput, savedItems, wordData, gallery,
                   activeImageIndex, imageFeedbacks, chatMessages, isChatOpen,
                   loadingWord, loadingImage, loadingNewImage, isChatSending,
                   searchTasks, varTask, chatTask, historyVars>>
    /\ UNCHANGED <<storyVars, persistVars, chatInFlight>>
    /\ UNCHANGED <<languageVars, audioVars, revealed>>
    /\ streak' = -1

(***************************************************************************)
(* The chat drawer and handleChatSubmit.  A ChatMessage is modelled by its *)
(* role and text; its id, a React key, is left out.                        *)
(***************************************************************************)
\* the floating 'Ask AI' button: setIsChatOpen(true)
OpenChat ==
    /\ appState = "running"
    /\ view = "search"
    /\ wordData # Null
    /\ ~isChatOpen
    /\ isChatOpen' = TRUE
    /\ UNCHANGED <<view, query, chatInput, savedItems, wordData, gallery,
                   activeImageIndex, additionalMeanings, imageFeedbacks,
                   chatMessages, loadingVars, taskVars, historyVars>>
    /\ UNCHANGED <<storyVars, persistVars, chatInFlight>>
    /\ UNCHANGED <<languageVars, audioVars, revealed>>
    /\ streak' = -1

\* the close button of the drawer: setIsChatOpen(false)
CloseChat ==
    /\ appState = "running"
    /\ isChatOpen' = FALSE
    /\ UNCHANGED <<view, query, chatInput, savedItems, wordData, gallery,
                   activeImageIndex, additionalMeanings, imageFeedbacks,
                   chatMessages, loadingVars, taskVars, historyVars>>
    /\ UNCHANGED <<storyVars, persistVars, chatInFlight>>
    /\ UNCHANGED <<languageVars, audioVars, revealed>>
    /\ streak' = -1

\* onChange of the chat input, and the suggestion buttons
SetChatInput(t) ==
    /\ appState = "running"
    /\ chatInput' = t
    /\ UNCHANGED <<view, query, savedItems, sessionVars, loadingVars,
                   taskVars, historyVars>>
    /\ UNCHANGED <<storyVars, persistVars, chatInFlight>>
    /\ UNCHANGED <<languageVars, audioVars, revealed>>
    /\ streak' = -1

\* sendMessage: a rejected call, a response without text, or a reply text
ChatResponses ==
    {[kind |-> "error"], [kind |-> "notext"]}
    \cup {[kind |-> "text", value |-> t] : t \in ReplyTexts}

\* chatAboutWord: response.text ("" for undefined), or Null when the
\* promise rejects
ChatAboutWord(resp) ==
    CASE resp.kind = "text" -> Some(resp.value)
      [] resp.kind = "notext" -> Some("")
      [] OTHER -> Null

\* a send button that stays enabled while a reply is pending
ChatSubmitEnabledWhileSending == Trim(chatInput) # <<>>

\* the send button of the chat form is enabled:
\* disabled={!chatInput.trim() || isChatSending}
ChatSubmitEnabled == Trim(chatInput) # <<>> /\ ~isChatSending

\* the submit of the chat form, up to 'await chatAboutWord(...)'
HandleChatSubmit ==
    /\ appState = "running"
    /\ ChatSubmitEnabled
    /\ Trim(chatInput) # <<>>
    /\ wordData # Null
    /\ Len(chatMessages) + 2 <= MaxChat
    /\ chatMessages' = Append(chatMessages,
           [role |-> "user", text |-> chatInput])
    /\ chatInput' = <<>>
    /\ isChatSending' = TRUE
    /\ chatTask' = Some([gen |-> searchGen])
    /\ UNCHANGED <<view, query, savedItems, wordData, gallery,
                   activeImageIndex, additionalMeanings, imageFeedbacks,
                   isChatOpen, loadingWord, loadingImage,
                   loadingMoreMeanings, loadingNewImage, searchTasks, varTask,
                   meanTask, historyVars>>
    /\ UNCHANGED <<storyVars, persistVars>>
    /\ chatInFlight' = chatInFlight + 1
    /\ UNCHANGED <<languageVars, audioVars, revealed>>
    /\ streak' = -1

\* text: responseText || "I couldn't answer that at the moment."
BotText(responseText) ==
    IF responseText # "" THEN <<responseText>>
    ELSE <<"I couldn't answer that at the moment.">>

\* the chat response arrives: the await resumes, or throws into catch
ChatArrive(resp) ==
    /\ appState = "running"
    /\ chatTask # Null
    /\ LET responseText == ChatAboutWord(resp)
       IN  IF responseText # Null
           THEN chatMessages' = Append(chatMessages,
                    [role |-> "model", text |-> BotText(responseText[1])])
           ELSE UNCHANGED chatMessages
    /\ isChatSending' = FALSE
    /\ chatTask' = Null
    /\ UNCHANGED <<view, query, chatInput, savedItems, wordData, gallery,
                   activeImageIndex, additionalMeanings, imageFeedbacks,
                   isChatOpen, loadingWord, loadingImage,
                   loadingMoreMeanings, loadingNewImage, searchTasks, varTask,
                   meanTask, historyVars>>
    /\ UNCHANGED <<storyVars, persistVars>>
    /\ chatInFlight' = chatInFlight - 1
    /\ UNCHANGED <<languageVars, audioVars, revealed>>
    /\ streak' = -1

(***************************************************************************)
(* The language selectors and handleAudioPlay.                             *)
(***************************************************************************)
\* the options of the two selectors the user picks
LanguageInputs == {"English", "Spanish"}

\* 'I speak': setNativeLanguage(e.target.value)
SetNativeLanguage(lang) ==
    /\ appState = "running"
    /\ nativeLanguage' = lang
    /\ UNCHANGED <<view, query, chatInput, savedItems, sessionVars,
                   loadingVars, taskVars, historyVars, storyVars,
                   persistVars, targetLanguage, audioVars, revealed,
                   chatInFlight>>
    /\ streak' = -1

\* 'Explain in': setTargetLanguage(e.target.value)
SetTargetLanguage(lang) ==
    /\ appState = "running"
    /\ targetLanguage' = lang
    /\ UNCHANGED <<view, query, chatInput, savedItems, sessionVars,
                   loadingVars, taskVars, historyVars, storyVars,
                   persistVars, nativeLanguage, audioVars, revealed,
                   chatInFlight>>
    /\ streak' = -1

\* playPronunciation: a rejected call (the request, atob or the audio
\* context throws), a response without audio data, or audio that is played
AudioResponses == {[kind |-> "error"], [kind |-> "noaudio"], [kind |-> "audio"]}

\* the 'Pronounce' button, up to 'await playPronunciation(...)'
HandleAudioPlay ==
    /\ appState = "running"
    /\ view = "search"
    /\ wordData # Null
    /\ ~loadingAudio
    /\ loadingAudio' = TRUE
    /\ audioTask' = Some([gen |-> searchGen])
    /\ UNCHANGED <<view, query, chatInput, savedItems, sessionVars,
                   loadingVars, taskVars, historyVars, storyVars,
                   persistVars, languageVars, revealed, chatInFlight>>
    /\ streak' = -1

\* a finally block that leaves the flag set
FinishAudioKeepingFlag ==
    loadingAudio' = loadingAudio

\* finally { setLoadingAudio(false) }
FinishAudio ==
    loadingAudio' = FALSE

\* playPronunciation settles: the await resumes, or throws into catch
AudioArrive(resp) ==
    /\ appState = "running"
    /\ audioTask # Null
    /\ FinishAudio
    /\ audioTask' = Null
    /\ UNCHANGED <<view, query, chatInput, savedItems, sessionVars,
                   loadingVars, taskVars, historyVars, storyVars,
                   persistVars, languageVars, revealed, chatInFlight>>
    /\ streak' = -1

(***************************************************************************)
(* The Collection Store: handleSaveItem and handleRemoveSavedItem.         *)
(***************************************************************************)
\* the identifiers handleRemoveSavedItem is called with
IdInputs == {ToString(t) : t \in 0 .. MaxClock + 1}

\* an updater without the duplicate check
SaveItemWithoutDuplicateCheck(prev, newItem) ==
    <<newItem>> \o prev

\* an updater whose duplicate check compares the identifiers
SaveItemCheckingId(prev, newItem) ==
    IF \E i \in DOMAIN prev : prev[i].id = newItem.id
    THEN prev
    ELSE <<newItem>> \o prev

\* the updater of setSavedItems in handleSaveItem: 'Prevent duplicates of
\* same word/image combo'
SaveItem(prev, newItem) ==
    IF \E i \in DOMAIN prev :
           prev[i].word = newItem.word /\ prev[i].imageUrl = newItem.imageUrl
    THEN prev
    ELSE <<newItem>> \o prev

\* the SavedItem handleSaveItem builds: Date.now() reads t for the
\* identifier and u for the timestamp
NewItem(t, u) ==
    [id |-> ToString(t),
     word |-> wordData[1].word,
     definition |-> wordData[1].definition,
     imageUrl |-> currentImage[1],
     timestamp |-> u]

\* the readings of Date.now(): the wall clock, which the environment sets
ClockReadings == 0 .. MaxClock

\* the 'Save to Wordbook' button, pressed when Date.now() reads t and
\* then u
HandleSaveItem(t, u) ==
    /\ appState = "running"
    /\ view = "search"
    /\ wordData # Null
    /\ Truthy(currentImage)
    /\ Len(savedItems) < MaxSaved \/ isCurrentSaved
    /\ savedItems' = SaveItem(savedItems, NewItem(t, u))
    /\ IF savedItems' = savedItems
       THEN \* the updater returned prev: no new array, no effect
            UNCHANGED persistVars
       ELSE \E w \in WriteOutcomes : PersistEffect(savedItems', w)
    /\ UNCHANGED <<view, query, chatInput, sessionVars, loadingVars,
                   taskVars, historyVars, storyVars, chatInFlight>>
    /\ UNCHANGED <<languageVars, audioVars, revealed>>
    /\ streak' = -1

\* a filter with the comparison inverted
RemoveSavedItemKeepingMatch(prev, id) ==
    SelectSeq(prev, LAMBDA item : item.id = id)

\* prev.filter(item => item.id !== id)
RemoveSavedItem(prev, id) ==
    SelectSeq(prev, LAMBDA item : item.id # id)

\* the trash button of a saved item, and a direct call with any identifier
HandleRemoveSavedItem(id) ==
    /\ appState = "running"
    /\ view = "wordbook"
    /\ savedItems' = RemoveSavedItem(savedItems, id)
    /\ \E w \in WriteOutcomes : PersistEffect(savedItems', w)
    /\ UNCHANGED <<view, query, chatInput, sessionVars, loadingVars,
                   taskVars, historyVars, storyVars, chatInFlight>>
    /\ UNCHANGED <<languageVars, audioVars, revealed>>
    /\ streak' = -1

(***************************************************************************)
(* Story mode: handleGenerateStory and generateStoryFromWords.             *)
(***************************************************************************)
\* Array.from(new Set(words)): the first occurrence of every word, in order
RECURSIVE UniqueWords(_)
UniqueWords(words) ==
    IF words = <<>> THEN <<>>
    ELSE LET init == UniqueWords(SubSeq(words, 1, Len(words) - 1))
             last == words[Len(words)]
         IN  IF \E i \in DOMAIN init : init[i] = last
             THEN init ELSE Append(init, last)

\* savedItems.map(i => i.word)
WordsOf(items) == [i \in DOMAIN items |-> items[i].word]

\* a word list that keeps every occurrence
CandidateWordsKeepingDuplicates(items) == WordsOf(items)

\* const uniqueWords = Array.from(new Set(savedItems.map(i => i.word)))
CandidateWords(items) == UniqueWords(WordsOf(items))

\* the request generateStoryFromWords issues: its prompt names the subset
IssueStoryRequest(words, subset) ==
    storyTasks' = Append(storyTasks, [words |-> words, subset |-> subset])

\* words.sort(() => 0.5 - Math.random()).slice(0, 8): the sort leaves the
\* words in some order, any one, each position of the input once; the
\* slice keeps the first 8.  chosen holds the positions taken so far, k
\* the number still to take.
RECURSIVE SortAndSlice(_, _, _)
SortAndSlice(words, chosen, k) ==
    IF k = 0
    THEN IssueStoryRequest(words, [j \in DOMAIN chosen |-> words[chosen[j]]])
    ELSE \E x \in DOMAIN words \ {chosen[j] : j \in DOMAIN chosen} :
             SortAndSlice(words, Append(chosen, x), k - 1)

\* a subset that is always the whole list
StorySubsetWithoutLimit(words) ==
    IssueStoryRequest(words, words)

\* const subset = words.length > 8 ? words.sort(...).slice(0, 8) : words
StorySubset(words) ==
    IF Len(words) > MaxStoryWords
    THEN SortAndSlice(words, <<>>, MaxStoryWords)
    ELSE IssueStoryRequest(words, words)

\* the StoryQuiz texts the story service answers with; the content, a
\* sequence of characters, reads '{{g}} {{p}}'
StoryQuizzes ==
    {[title |-> "t",
      content |-> <<"{", "{", "g", "}", "}", " ", "{", "{", "p", "}", "}">>,
      wordsUsed |-> <<"gato">>]}

\* generateContent for a story
StoryResponses ==
    {[kind |-> "error"], [kind |-> "notext"], [kind |-> "malformed"]}
    \cup {[kind |-> "text", value |-> q] : q \in StoryQuizzes}

\* generateStoryFromWords: the resolved StoryQuiz, or Null when the promise
\* rejects
GenerateStoryFromWords(resp) ==
    IF resp.kind = "text" THEN Some(resp.value) ELSE Null

(***************************************************************************)
(* renderStoryContent and QuizBlank.  A text is a sequence of characters.  *)
(***************************************************************************)
\* the line terminators, which '.' of a regular expression does not match
LineTerminators == {"\n"}

\* the regular expression /\{\{.*?\}\}/ tried at position q of s: the
\* position after the match, the shortest one that starts at q, or 0 when
\* nothing matches there
MatchEnd(s, q) ==
    IF q + 1 <= Len(s) /\ s[q] = "{" /\ s[q + 1] = "{"
    THEN LET ends == {j \in q + 2 .. Len(s) - 1 :
                         /\ s[j] = "}" /\ s[j + 1] = "}"
                         /\ \A k \in q + 2 .. j - 1 :
                                s[k] \notin LineTerminators}
         IN  IF ends = {} THEN 0
             ELSE (CHOOSE j \in ends : \A k \in ends : j <= k) + 2
    ELSE 0

\* String.prototype.split with a capturing group: the piece in progress
\* starts at p and the next match is looked for from q on; a match closes
\* the piece and is itself a part
RECURSIVE SplitFrom(_, _, _)
SplitFrom(s, p, q) ==
    IF q > Len(s) THEN <<SubSeq(s, p, Len(s))>>
    ELSE LET e == MatchEnd(s, q)
         IN  IF e = 0 THEN SplitFrom(s, p, q + 1)
             ELSE <<SubSeq(s, p, q - 1), SubSeq(s, q, e - 1)>>
                      \o SplitFrom(s, e, e)

\* const parts = content.split(/(\{\{.*?\}\})/g)
Split(content) == SplitFrom(content, 1, 1)

\* part.startsWith(prefix), part.endsWith(suffix)
StartsWith(part, prefix) ==
    Len(part) >= Len(prefix) /\ SubSeq(part, 1, Len(prefix)) = prefix
EndsWith(part, suffix) ==
    /\ Len(part) >= Len(suffix)
    /\ SubSeq(part, Len(part) - Len(suffix) + 1, Len(part)) = suffix

\* part.slice(2, -2)
Slice(part) == SubSeq(part, 3, Len(part) - 2)

\* the element parts.map makes of a part: <QuizBlank word={...}/> or
\* <span>{part}</span>
RenderPart(part) ==
    IF StartsWith(part, <<"{", "{">>) /\ EndsWith(part, <<"}", "}">>)
    THEN [kind |-> "QuizBlank", word |-> Slice(part)]
    ELSE [kind |-> "span", text |-> part]

\* renderStoryContent: the children of the paragraph, in order
RenderStoryContent(content) ==
    LET parts == Split(content)
    IN  [i \in DOMAIN parts |-> RenderPart(parts[i])]

\* the keys (key={i}, from 0) of the QuizBlank components of a story
BlankKeys(content) ==
    {i - 1 : i \in {j \in DOMAIN RenderStoryContent(content) :
                        RenderStoryContent(content)[j].kind = "QuizBlank"}}

\* the keys of the QuizBlank components of the story section
StoryBlankKeys ==
    IF storyQuiz = Null THEN {} ELSE BlankKeys(storyQuiz[1].content)

\* a click on the blank with key i: setRevealed(true)
RevealBlank(i) ==
    /\ appState = "running"
    /\ view = "wordbook"
    /\ storyQuiz # Null
    /\ i \in StoryBlankKeys
    /\ revealed' = revealed \cup {i}
    /\ UNCHANGED <<view, query, chatInput, savedItems, sessionVars,
                   loadingVars, taskVars, historyVars, storyVars,
                   persistVars, languageVars, audioVars, chatInFlight>>
    /\ streak' = -1

\* a start that keeps the displayed story
StartStoryKeepingQuiz ==
    /\ loadingStory' = TRUE
    /\ storyQuiz' = storyQuiz

\* setLoadingStory(true); setStoryQuiz(null)
StartStory ==
    /\ loadingStory' = TRUE
    /\ storyQuiz' = Null

\* the 'Practice with AI Story' button, up to the await of the request
\* generateStoryFromWords issues
HandleGenerateStory ==
    /\ appState = "running"
    /\ view = "wordbook"
    /\ Len(savedItems) # 0
    /\ ~loadingStory
    /\ StartStory
    /\ StorySubset(CandidateWords(savedItems))
    /\ UNCHANGED <<view, query, chatInput, savedItems, sessionVars,
                   loadingVars, taskVars, historyVars, persistVars,
                   chatInFlight>>
    /\ UNCHANGED <<languageVars, audioVars>>
    /\ revealed' = {}
    /\ streak' = -1

\* the response to the story request i arrives: the await resumes, or
\* throws into catch; finally
StoryArrive(i, resp) ==
    /\ appState = "running"
    /\ i \in DOMAIN storyTasks
    /\ LET quiz == GenerateStoryFromWords(resp)
       IN  IF quiz # Null
           THEN storyQuiz' = quiz
           ELSE UNCHANGED storyQuiz
    /\ loadingStory' = FALSE
    /\ storyTasks' = SubSeq(storyTasks, 1, i - 1)
                         \o SubSeq(storyTasks, i + 1, Len(storyTasks))
    /\ UNCHANGED <<view, query, chatInput, savedItems, sessionVars,
                   loadingVars, taskVars, historyVars, persistVars,
                   chatInFlight>>
    /\ UNCHANGED <<languageVars, audioVars>>
    /\ revealed' = revealed \cap
           (IF storyQuiz' = Null THEN {}
            ELSE BlankKeys(storyQuiz'[1].content))
    /\ streak' = -1

\* the close button of the story: setStoryQuiz(null)
CloseStory ==
    /\ appState = "running"
    /\ view = "wordbook"
    /\ storyQuiz # Null
    /\ storyQuiz' = Null
    /\ UNCHANGED <<view, query, chatInput, savedItems, sessionVars,
                   loadingVars, taskVars, historyVars, loadingStory,
                   storyTasks, persistVars, chatInFlight>>
    /\ UNCHANGED <<languageVars, audioVars>>
    /\ revealed' = {}
    /\ streak' = -1

\* the sizes of the wordbooks a story is generated from: one word, as many
\* words as generateStoryFromWords keeps, one more and two more
StoryInputSizes == {1, 8, 9, 10}

\* a wordbook of n items with n different words
SavedWords(n) ==
    [i \in 1 .. n |->
        [id |-> ToString(i), word |-> "w" \o ToString(i),
         definition |-> "d1", imageUrl |-> "data:image/jpeg;base64,A",
         timestamp |-> i]]

\* the wordbook view of an application that was started on a stored
\* wordbook
WordbookInit ==
    /\ InitialState
    /\ view = "wordbook"
    /\ appState = "running"
    /\ \E n \in StoryInputSizes :
           /\ savedItems = SavedWords(n)
           /\ stored = Some(Stringify(savedItems))

\* the search view after the n-th search of a run has found its word and
\* its image, the collection apart
FoundSessionAt(n) ==
    /\ view = "search"
    /\ query = <<"a">>
    /\ \E w \in Words, d \in Definitions :
           wordData = Some([word |-> w, definition |-> d])
    /\ \E img \in ImageRefs :
           /\ gallery = <<img>>
           /\ imageResult = Some(img)
    /\ activeImageIndex = 0
    /\ additionalMeanings = Null
    /\ imageFeedbacks = EmptyMap
    /\ targetLanguage = "Spanish"
    /\ nativeLanguage = "English"
    /\ storyQuiz = Null
    /\ loadingStory = FALSE
    /\ revealed = {}
    /\ loadingWord = FALSE
    /\ loadingImage = FALSE
    /\ loadingAudio = FALSE
    /\ loadingMoreMeanings = FALSE
    /\ loadingNewImage = FALSE
    /\ chatMessages = <<>>
    /\ chatInput = <<>>
    /\ isChatSending = FALSE
    /\ appState = "running"
    /\ searchTasks = {}
    /\ varTask = Null
    /\ meanTask = Null
    /\ chatTask = Null
    /\ storyTasks = <<>>
    /\ audioTask = Null
    /\ searchGen = n
    /\ detailsResult = "resolved"
    /\ wordGen = n
    /\ galleryGen = <<n>>
    /\ chatInFlight = 0

\* after the first search, nothing saved yet
FoundInit ==
    /\ FoundSessionAt(1)
    /\ isChatOpen = FALSE
    /\ streak = 0
    /\ savedItems = <<>>
    /\ stored = Some(Stringify(savedItems))

\* before the last search, the chat panel open, in a run that was started
\* on a stored wordbook of one item
FoundWithWordbookInit ==
    /\ FoundSessionAt(MaxSearches - 1)
    /\ isChatOpen = TRUE
    /\ streak = -1
    /\ wordData[1].word = "gato"
    /\ gallery = <<"data:image/jpeg;base64,B">>
    /\ savedItems = SavedWords(1)
    /\ stored = Some(Stringify(savedItems))

\* the characters of the story texts
StoryChars == {"{", "}", "a", "\n"}

\* the length of the story texts that are enumerated
MaxContent == 6

\* 'The {{cat}} sat on the {{mat}}.'
ExampleContent ==
    <<"T", "h", "e", " ", "{", "{", "c", "a", "t", "}", "}", " ", "s", "a",
      "t", " ", "o", "n", " ", "t", "h", "e", " ", "{", "{", "m", "a", "t",
      "}", "}", ".">>

\* the story texts the story service answers with
RenderInputs ==
    UNION {[1 .. n -> StoryChars] : n \in 0 .. MaxContent}
    \cup {ExampleContent}

\* the wordbook view with a story displayed
RenderInit ==
    /\ IdleState
    /\ view = "wordbook"
    /\ appState = "running"
    /\ savedItems = <<>>
    /\ stored = Some(Stringify(savedItems))
    /\ \E c \in RenderInputs :
           storyQuiz = Some([title |-> "t", content |-> c,
                             wordsUsed |-> <<>>])

(***************************************************************************)
(* The specifications.  Each is the application under the user actions it  *)
(* lists, with every response its requests can receive.                    *)
(***************************************************************************)
\* searching: the search box and the responses of the searches
SearchNext ==
    \/ \E q \in QueryInputs : SetQuery(q)
    \/ HandleSearch
    \/ \E t \in searchTasks, resp \in DetailsResponses :
           DetailsArrive(t, resp)
    \/ \E t \in searchTasks, resp \in ImageResponses : ImageArrive(t, resp)

\* generating variations
VariationNext ==
    \/ HandleGenerateNewImage
    \/ \E resp \in ImageResponses : NewImageArrive(resp)

\* searching, generating variations and browsing the gallery
Next ==
    \/ SearchNext
    \/ VariationNext
    \/ \E idx \in 0 .. MaxGallery : SelectThumbnail(idx)

Spec == Init /\ [][Next]_vars

\* searching, rating the image, revealing the additional meanings and
\* chatting
SessionNext ==
    \/ SearchNext
    \/ ToggleFeedback("like")
    \/ HandleLoadMoreMeanings
    \/ \E resp \in MeaningsResponses : MeaningsArrive(resp)
    \/ OpenChat
    \/ SetChatInput(<<"a">>)
    \/ HandleChatSubmit
    \/ \E resp \in ChatResponses : ChatArrive(resp)

SessionSpec == Init /\ [][SessionNext]_vars

\* searching, generating variations, revealing the additional meanings and
\* chatting, with the chat drawer opened and closed
AsyncNext ==
    \/ SearchNext
    \/ VariationNext
    \/ HandleLoadMoreMeanings
    \/ \E resp \in MeaningsResponses : MeaningsArrive(resp)
    \/ OpenChat
    \/ CloseChat
    \/ \E t \in ChatInputs : SetChatInput(t)
    \/ HandleChatSubmit
    \/ \E resp \in ChatResponses : ChatArrive(resp)

AsyncSpec == Init /\ [][AsyncNext]_vars

\* searching, and saving to and removing from the wordbook
StoreNext ==
    \/ SearchNext
    \/ ToggleWordbook
    \/ GoToSearch
    \/ \E t, u \in ClockReadings : HandleSaveItem(t, u)
    \/ \E id \in IdInputs : HandleRemoveSavedItem(id)

StoreSpec == Init /\ [][StoreNext]_vars

\* the same, from the first render on any stored value
PersistNext ==
    \/ Mount
    \/ StoreNext

PersistSpec == BootInit /\ [][PersistNext]_vars

\* searching, generating variations and rating the images
FeedbackNext ==
    \/ SearchNext
    \/ VariationNext
    \/ \E type \in {"like", "dislike"} : ToggleFeedback(type)

FeedbackSpec == Init /\ [][FeedbackNext]_vars

\* the story events: the button, every response of the request and the
\* close button
SubsetNext ==
    \/ HandleGenerateStory
    \/ \E i \in DOMAIN storyTasks, resp \in StoryResponses :
           StoryArrive(i, resp)
    \/ CloseStory

\* the story requests made from a stored wordbook, each of which fails
SelectionNext ==
    \/ HandleGenerateStory
    \/ \E i \in DOMAIN storyTasks : StoryArrive(i, [kind |-> "error"])

SubsetSpec == WordbookInit /\ [][SelectionNext]_vars

\* the items handleSaveItem writes: any word under any image, the id and
\* the timestamp from any two clock readings
WrittenItems ==
    {[id |-> ToString(t), word |-> w, definition |-> d, imageUrl |-> img,
      timestamp |-> u] :
        t \in ClockReadings, u \in ClockReadings, w \in Words,
        d \in Definitions, img \in ImageRefs}

\* the collections of n written items in any order, no word twice under
\* one image; ids may repeat and may differ from the timestamps
RECURSIVE WrittenCollectionsOf(_)
WrittenCollectionsOf(n) ==
    IF n = 0 THEN {<<>>}
    ELSE {Append(x[1], x[2]) :
              x \in {y \in WrittenCollectionsOf(n - 1) \X WrittenItems :
                         \A i \in DOMAIN y[1] :
                             \/ y[1][i].word # y[2].word
                             \/ y[1][i].imageUrl # y[2].imageUrl}}

\* the sizes of the collections an application is started on; three items
\* are the fewest among which a word stands before and after another word
StoredSizes == {0, 1, 2, 3}

\* the collections earlier runs of the application leave in the store
WrittenCollections ==
    UNION {WrittenCollectionsOf(n) : n \in StoredSizes}

\* the state after the start of an application whose store holds a
\* collection written by earlier runs
StoryInit ==
    /\ InitialState
    /\ view = "search"
    /\ appState = "running"
    /\ savedItems \in WrittenCollections
    /\ stored = Some(Stringify(savedItems))

\* the wordbook and its stories: the two view switches, removing an item
\* and the story events with every response. Searching and saving are
\* left out; the wordbook comes from the store.
StoryNext ==
    \/ ToggleWordbook
    \/ GoToSearch
    \/ \E id \in IdInputs : HandleRemoveSavedItem(id)
    \/ SubsetNext

StorySpec == StoryInit /\ [][StoryNext]_vars

\* rating the image, revealing the additional meanings and chatting about
\* a word that has been found, with the two views and saving
ViewNext ==
    \/ \E type \in {"like", "dislike"} : ToggleFeedback(type)
    \/ HandleLoadMoreMeanings
    \/ \E resp \in MeaningsResponses : MeaningsArrive(resp)
    \/ OpenChat
    \/ \E t \in ChatInputs : SetChatInput(t)
    \/ HandleChatSubmit
    \/ \E resp \in ChatResponses : ChatArrive(resp)
    \/ ToggleWordbook
    \/ GoToSearch
    \/ \E t, u \in ClockReadings : HandleSaveItem(t, u)

ViewSpec == FoundInit /\ [][ViewNext]_vars

\* searching, rating the image and revealing the additional meanings
MeaningsNext ==
    \/ SearchNext
    \/ \E type \in {"like", "dislike"} : ToggleFeedback(type)
    \/ HandleLoadMoreMeanings
    \/ \E resp \in MeaningsResponses : MeaningsArrive(resp)

MeaningsSpec == Init /\ [][MeaningsNext]_vars

\* the user events that issue a request, and what leads to them
RequestNext ==
    \/ HandleSearch
    \/ HandleGenerateNewImage
    \/ HandleLoadMoreMeanings
    \/ HandleAudioPlay
    \/ SetChatInput(<<"a">>)
    \/ HandleChatSubmit
    \/ ToggleWordbook
    \/ HandleGenerateStory

\* a response arrives: a failure or a success of every request
SearchSettles ==
    \E t \in searchTasks :
        \/ \E resp \in {r \in DetailsResponses :
                            r.kind = "error" \/
                            (r.kind = "text" /\ r.value.word = "gato")} :
               DetailsArrive(t, resp)
        \/ \E resp \in {r \in ImageResponses :
                            r.kind = "error" \/
                            (r.kind = "bytes" /\ r.value = "B")} :
               ImageArrive(t, resp)
VariationSettles ==
    \E resp \in {r \in ImageResponses :
                     r.kind = "error" \/
                     (r.kind = "bytes" /\ r.value = "B")} :
        NewImageArrive(resp)
MeaningsSettles ==
    \E resp \in {r \in MeaningsResponses : r.kind \in {"error", "notext"}} :
        MeaningsArrive(resp)
AudioSettles ==
    \E resp \in AudioResponses : AudioArrive(resp)
ChatSettles ==
    \E resp \in {r \in ChatResponses : r.kind \in {"error", "notext"}} :
        ChatArrive(resp)
StorySettles ==
    \E i \in DOMAIN storyTasks,
       resp \in {r \in StoryResponses : r.kind \in {"error", "text"}} :
        StoryArrive(i, resp)

\* every request of the application, with its responses; every issued
\* request is settled in the end
LiveNext ==
    \/ RequestNext
    \/ SearchSettles
    \/ VariationSettles
    \/ MeaningsSettles
    \/ AudioSettles
    \/ ChatSettles
    \/ StorySettles

LiveSpec ==
    /\ FoundWithWordbookInit
    /\ [][LiveNext]_vars
    /\ WF_vars(SearchSettles)
    /\ WF_vars(VariationSettles)
    /\ WF_vars(MeaningsSettles)
    /\ WF_vars(AudioSettles)
    /\ WF_vars(ChatSettles)
    /\ WF_vars(StorySettles)

\* the events of the application that the collection is framed against,
\* and the save and remove events, around the one search of the run that
\* is left. A save takes any two clock readings and a removal any id. Of
\* the other inputs one value each: the definition request fails or finds
\* "gato", the initial image request returns the bytes B, the variation
\* request fails or returns B, the meanings and chat requests return no
\* text, the story request returns a story; the feedback is a like, the
\* chat input is "a", the native language is set to Spanish and the target
\* language to English. SetQuery, the audio, OpenChat, CloseChat,
\* GoToSearch, CloseStory and the blanks are left out.
FrameNext ==
    \/ HandleSearch
    \/ \E t \in searchTasks,
          resp \in {r \in DetailsResponses :
                       r.kind = "error" \/
                       (r.kind = "text" /\ r.value.word = "gato")} :
           DetailsArrive(t, resp)
    \/ \E t \in searchTasks :
           ImageArrive(t, [kind |-> "bytes", value |-> "B"])
    \/ HandleGenerateNewImage
    \/ VariationSettles
    \/ \E idx \in 0 .. MaxGallery : SelectThumbnail(idx)
    \/ ToggleFeedback("like")
    \/ HandleLoadMoreMeanings
    \/ MeaningsArrive([kind |-> "notext"])
    \/ SetChatInput(<<"a">>)
    \/ HandleChatSubmit
    \/ ChatArrive([kind |-> "notext"])
    \/ ToggleWordbook
    \/ HandleGenerateStory
    \/ \E i \in DOMAIN storyTasks,
          resp \in {r \in StoryResponses : r.kind = "text"} :
           StoryArrive(i, resp)
    \/ SetNativeLanguage("Spanish")
    \/ SetTargetLanguage("English")
    \/ \E t, u \in ClockReadings : HandleSaveItem(t, u)
    \/ \E id \in IdInputs : HandleRemoveSavedItem(id)

\* the search view after the n-th search of a run has found neither its
\* word nor its image, the collection apart
FailedSessionAt(n) ==
    /\ view = "search"
    /\ query = <<"a">>
    /\ wordData = Null
    /\ gallery = <<>>
    /\ activeImageIndex = 0
    /\ additionalMeanings = Null
    /\ imageFeedbacks = EmptyMap
    /\ targetLanguage = "Spanish"
    /\ nativeLanguage = "English"
    /\ storyQuiz = Null
    /\ loadingStory = FALSE
    /\ revealed = {}
    /\ loadingWord = FALSE
    /\ loadingImage = FALSE
    /\ loadingAudio = FALSE
    /\ loadingMoreMeanings = FALSE
    /\ loadingNewImage = FALSE
    /\ isChatOpen = FALSE
    /\ chatMessages = <<>>
    /\ chatInput = <<>>
    /\ isChatSending = FALSE
    /\ appState = "running"
    /\ searchTasks = {}
    /\ varTask = Null
    /\ meanTask = Null
    /\ chatTask = Null
    /\ storyTasks = <<>>
    /\ audioTask = Null
    /\ searchGen = n
    /\ detailsResult = "rejected"
    /\ imageResult = Some("")
    /\ wordGen = 0
    /\ galleryGen = <<>>
    /\ chatInFlight = 0
    /\ streak = 0

\* an application that was started on a store holding no item or one
\* item, after all searches of the run but one have found nothing
FrameInit ==
    /\ FailedSessionAt(MaxSearches - 1)
    /\ savedItems \in
           {<<>>,
            <<[id |-> "0", word |-> "gato", definition |-> "d1",
               imageUrl |-> "data:image/jpeg;base64,B", timestamp |-> 0]>>}
    /\ stored = Some(Stringify(savedItems))

FrameSpec == FrameInit /\ [][FrameNext]_vars

\* reading a displayed story: revealing its blanks and closing it
RenderNext ==
    \/ \E i \in StoryBlankKeys : RevealBlank(i)
    \/ CloseStory

RenderSpec == RenderInit /\ [][RenderNext]_vars

\* the wordbook and its stories, with the blanks of the story
RevealNext ==
    \/ StoryNext
    \/ \E i \in StoryBlankKeys : RevealBlank(i)

RevealSpec == StoryInit /\ [][RevealNext]_vars

(***************************************************************************)
(* Helpers of the properties.                                              *)
(***************************************************************************)
Range(f) == {f[i] : i \in DOMAIN f}

\* the search task t received a response in this step
Stepped(t) == t \in searchTasks /\ t \notin searchTasks'

\* a is b with some elements left out, the others in b's order
RECURSIVE IsSubSeq(_, _)
IsSubSeq(a, b) ==
    IF a = <<>> THEN TRUE
    ELSE IF b = <<>> THEN FALSE
    ELSE IF Head(a) = Head(b) THEN IsSubSeq(Tail(a), Tail(b))
    ELSE IsSubSeq(a, Tail(b))

(***************************************************************************)
(* C1 - Session reset.                                                     *)
(***************************************************************************)
\* C1: every step that starts a search ends in a state where the
\* definition is absent, the gallery, the feedback map and the chat
\* transcript are empty and the additional meanings are absent, whatever
\* they held before.
C1_SearchClearsSession ==
    [][searchGen' # searchGen =>
           /\ wordData' = Null
           /\ gallery' = <<>>
           /\ imageFeedbacks' = EmptyMap
           /\ chatMessages' = <<>>
           /\ additionalMeanings' = Null]_vars

\* the second search has just started, none of its responses has arrived,
\* and a chat request of the first search is still in flight: the search
\* started on a transcript that held that request's message
C1_Witness ==
    /\ searchGen = 2
    /\ detailsResult = "pending"
    /\ imageResult = Null
    /\ chatTask # Null
    /\ chatTask[1].gen = 1
    /\ chatMessages = <<>>
    /\ wordData = Null
    /\ gallery = <<>>

(***************************************************************************)
(* C2, C3 - Responses of a superseded search.                              *)
(***************************************************************************)
\* C2: a definition or image response of a search that is no longer the
\* latest one changes neither the definition nor the gallery.
C2_NoStaleSearchWrite ==
    [][\A t \in searchTasks :
           (Stepped(t) /\ t.gen < searchGen) =>
               (wordData' = wordData /\ gallery' = gallery)]_vars

\* C3: a variation image, an additional-meanings batch or a chat reply
\* whose request was issued before the latest search started changes
\* neither the gallery, the additional meanings nor the chat transcript.
C3_NoStaleSessionWrite ==
    [][/\ (varTask # Null /\ varTask' = Null /\ varTask[1].gen < searchGen)
             => gallery' = gallery
       /\ (meanTask # Null /\ meanTask' = Null /\ meanTask[1].gen < searchGen)
             => additionalMeanings' = additionalMeanings
       /\ (chatTask # Null /\ chatTask' = Null /\ chatTask[1].gen < searchGen)
             => chatMessages' = chatMessages]_vars

(***************************************************************************)
(* C4, C5, C6 - Definition and first image of one search.                  *)
(***************************************************************************)
\* C4: each response of the latest search is committed when it arrives,
\* without waiting for the other: once its definition has resolved the
\* definition is present, and once its image has been generated the image
\* is in the gallery.
C4_CommittedOnArrival ==
    /\ detailsResult = "resolved" => (wordData # Null /\ wordGen = searchGen)
    /\ (imageResult # Null /\ imageResult[1] # "")
           => searchGen \in Range(galleryGen)

\* C5: in the latest search, a failed image request does not keep the
\* resolved definition from being committed, and a failed definition
\* request does not keep the generated image from being committed.
C5_IndependentFailure ==
    /\ (imageResult = Some("") /\ detailsResult = "resolved")
           => (wordData # Null /\ wordGen = searchGen)
    /\ (detailsResult = "rejected" /\ imageResult # Null
            /\ imageResult[1] # "")
           => searchGen \in Range(galleryGen)

\* C6: in the latest search, while the definition has resolved and the
\* image has not, the definition is present and loadingImage is set; the
\* step in which the image then arrives puts it in the gallery, clears
\* loadingImage and issues no request.
C6_DefinitionFirst ==
    /\ [](detailsResult = "resolved" /\ imageResult = Null
              => wordData # Null /\ loadingImage)
    /\ [][\A t \in searchTasks :
              (Stepped(t) /\ t.gen = searchGen /\ t.pc = "awaitImage") =>
                  /\ ~loadingImage'
                  /\ imageResult'[1] # "" => gallery' = <<imageResult'[1]>>
                  /\ searchTasks' \subseteq searchTasks
                  /\ searchGen' = searchGen]_vars

(***************************************************************************)
(* C7 .. C10 - The Collection Store.                                       *)
(***************************************************************************)
\* C7: no two saved items have the same word and the same image reference.
C7_UniquePairs ==
    \A i, j \in DOMAIN savedItems :
        i # j => ~(/\ savedItems[i].word = savedItems[j].word
                   /\ savedItems[i].imageUrl = savedItems[j].imageUrl)

\* two items of one word are saved, the displayed image is one of them, and
\* the save button can be pressed again
C7_Witness ==
    /\ view = "search"
    /\ Len(savedItems) = 2
    /\ savedItems[1].word = savedItems[2].word
    /\ isCurrentSaved

\* C8: once the displayed word and image are saved, saving them again, at
\* any clock reading, leaves the collection as it is: same items, same
\* order.
C8_SaveIdempotent ==
    [][(view = "search" /\ isCurrentSaved) => savedItems' = savedItems]_vars

\* the displayed word and image have been saved on top of an earlier item,
\* and the save button can be pressed again
C8_Witness ==
    /\ view = "search"
    /\ wordData # Null
    /\ Truthy(currentImage)
    /\ Len(savedItems) = 2
    /\ savedItems[1].word = wordData[1].word
    /\ savedItems[1].imageUrl = currentImage[1]

\* C9: saving a word and image that are not saved yet and then removing
\* the new item by its identifier gives back the collection as it was.
C9_SaveThenRemoveRestores ==
    (wordData # Null /\ Truthy(currentImage) /\ ~isCurrentSaved) =>
        \A t, u \in ClockReadings :
            RemoveSavedItem(SaveItem(savedItems, NewItem(t, u)),
                            NewItem(t, u).id) = savedItems

\* C10: removing by an identifier no item carries changes nothing; removing
\* by any identifier leaves no item that carries it and keeps every other
\* item, in the order they had.
C10_RemoveFrame ==
    \A id \in IdInputs :
        LET r == RemoveSavedItem(savedItems, id)
            others == {i \in DOMAIN savedItems : savedItems[i].id # id}
        IN  /\ (others = DOMAIN savedItems) => r = savedItems
            /\ \A i \in DOMAIN r : r[i].id # id
            /\ Len(r) = Cardinality(others)
            /\ IsSubSeq(r, savedItems)

\* the wordbook shows two items with different identifiers: one can be
\* removed and the other must stay
C10_Witness ==
    /\ view = "wordbook"
    /\ Len(savedItems) = 2
    /\ savedItems[1].id # savedItems[2].id

(***************************************************************************)
(* C11, C12, C13 - Persistence of the Collection Store.                    *)
(***************************************************************************)
\* C11: after every step that changes the collection, a save or a remove,
\* the text in local storage is the serialization of the new collection:
\* hydrating from it gives the new collection back.
C11_PersistedAfterEveryMutation ==
    [][savedItems' # savedItems => Hydrate(stored') = Some(savedItems')]_vars

\* C12: whatever local storage holds at the start, the first render
\* succeeds on the hydrated value: no stored value is fatal.
C12_HydrationNeverFatal ==
    appState # "renderError"

\* C13: a local-storage write that throws after a save or a remove takes
\* nothing down: no exception escapes the persistence effect.
C13_WriteFailureSwallowed ==
    appState # "effectError"

(***************************************************************************)
(* C14, C15 - Variations.                                                  *)
(***************************************************************************)
\* C14: the step in which a variation response arrives either leaves the
\* gallery and the active index as they are (no image) or appends one
\* entry to the gallery and makes the active index that of the new last
\* entry, whatever the active index was.
C14_VariationAppendsAndSelects ==
    [][(varTask # Null /\ varTask' = Null) =>
           \/ /\ gallery' = gallery
              /\ activeImageIndex' = activeImageIndex
           \/ /\ Len(gallery') = Len(gallery) + 1
              /\ SubSeq(gallery', 1, Len(gallery)) = gallery
              /\ activeImageIndex' = Len(gallery') - 1]_vars

\* C15: when a search has resolved its definition and its image, and
\* since it was submitted nothing has happened but its own responses and n
\* variations, each requested after the previous one resolved and each
\* successful, the gallery has n + 1 entries and the active index is n.
C15_VariationsInARow ==
    (/\ streak >= 0
     /\ searchTasks = {}
     /\ detailsResult = "resolved"
     /\ Truthy(imageResult))
        => (Len(gallery) = streak + 1 /\ activeImageIndex = streak)

\* n = 2: the search and two variations in a row have resolved, three
\* entries, active index 2
C15_Witness ==
    /\ streak = 2
    /\ varTask = Null
    /\ Len(gallery) = 3
    /\ activeImageIndex = 2

(***************************************************************************)
(* C16 - Feedback.                                                         *)
(***************************************************************************)
\* the feedback maps f and g agree on every image reference but u
SameButFor(f, g, u) ==
    /\ DOMAIN f \ {u} = DOMAIN g \ {u}
    /\ \A v \in DOMAIN f \ {u} : f[v] = g[v]

\* C16: on the displayed image, applying the value the image already
\* carries removes its entry, and applying a value it does not carry sets
\* the entry to that value (replacing the opposite one), so that applying
\* the same value once more returns the image to no feedback; the entries
\* of all other image references stay as they are; and every step that
\* changes the feedback map, a new search apart, is such an application.
C16_FeedbackToggle ==
    /\ [](Truthy(currentImage) =>
             \A type \in {"like", "dislike"} :
                 LET u == currentImage[1]
                     once == ToggledFeedbacks(imageFeedbacks, u, type)
                     twice == ToggledFeedbacks(once, u, type)
                 IN  /\ SameButFor(imageFeedbacks, once, u)
                     /\ IF u \in DOMAIN imageFeedbacks
                           /\ imageFeedbacks[u] = type
                        THEN u \notin DOMAIN once
                        ELSE /\ u \in DOMAIN once
                             /\ once[u] = type
                             /\ u \notin DOMAIN twice
                             /\ SameButFor(imageFeedbacks, twice, u))
    /\ [][(imageFeedbacks' # imageFeedbacks /\ searchGen' = searchGen) =>
              /\ Truthy(currentImage)
              /\ \E type \in {"like", "dislike"} :
                     imageFeedbacks' =
                         ToggledFeedbacks(imageFeedbacks, currentImage[1],
                                          type)]_vars

\* two images of the gallery are rated, one liked and one disliked, and
\* the displayed one is one of them
C16_Witness ==
    /\ Truthy(currentImage)
    /\ currentImage[1] \in DOMAIN imageFeedbacks
    /\ \E u, v \in DOMAIN imageFeedbacks :
           imageFeedbacks[u] = "like" /\ imageFeedbacks[v] = "dislike"

(***************************************************************************)
(* C17, C18 - Chat.                                                        *)
(***************************************************************************)
\* C17: at most one chat request is in flight, and it is the one
\* handleChatSubmit waits for: nothing is submitted while a reply is
\* pending.
C17_ChatSingleFlight ==
    /\ chatInFlight \in {0, 1}
    /\ chatInFlight = 1 <=> chatTask # Null
    /\ chatInFlight = 1 <=> isChatSending

\* a reply is pending, the drawer is open on an empty transcript and the
\* user has typed the next message: only the lock keeps it from being sent
C17_Witness ==
    /\ chatInFlight = 1
    /\ view = "search"
    /\ isChatOpen
    /\ wordData # Null
    /\ Trim(chatInput) # <<>>
    /\ chatMessages = <<>>

\* C18: once no chat request is pending, every user message of the
\* transcript is followed by an assistant message, whether its request
\* succeeded, returned no text or failed.
C18_EveryMessageAnswered ==
    chatInFlight = 0 =>
        \A i \in DOMAIN chatMessages :
            chatMessages[i].role = "user" =>
                /\ i < Len(chatMessages)
                /\ chatMessages[i + 1].role = "model"

(***************************************************************************)
(* C19, C20 - Story mode.                                                  *)
(***************************************************************************)
\* C19: at most one story request is pending, and one is pending exactly
\* while loadingStory is set; while loadingStory is set no story is
\* displayed; a step that issues a story request starts with no request
\* pending and ends with the displayed story absent.
C19_StorySingleFlight ==
    /\ [](/\ Len(storyTasks) <= 1
          /\ Len(storyTasks) = 1 <=> loadingStory
          /\ loadingStory => storyQuiz = Null)
    /\ [][Len(storyTasks') > Len(storyTasks) =>
              /\ storyTasks = <<>>
              /\ storyQuiz' = Null]_vars

\* a story request is pending in the wordbook view, the loader is shown
\* and no story is displayed; the collection holds two items with one id
C19_Witness ==
    /\ view = "wordbook"
    /\ loadingStory
    /\ Len(storyTasks) = 1
    /\ storyQuiz = Null
    /\ Len(savedItems) >= 2
    /\ savedItems[1].id = savedItems[2].id

\* the number of positions of words that hold v
Count(words, v) == Cardinality({i \in DOMAIN words : words[i] = v})

\* C20: a story request made from more than 8 words names exactly 8 of
\* them, each a word of the input and no input position twice: 8
\* different words of the input when the input words differ, and otherwise
\* no word more often than the input holds it; a request made from 8 or
\* fewer words names all of them, in order.
C20_StoryInputBounded ==
    \A i \in DOMAIN storyTasks :
        LET words == storyTasks[i].words
            subset == storyTasks[i].subset
        IN  IF Len(words) > 8
            THEN /\ Len(subset) = 8
                 /\ IF Cardinality(Range(words)) = Len(words)
                    THEN /\ Range(subset) \subseteq Range(words)
                         /\ Cardinality(Range(subset)) = 8
                    ELSE \A v \in Range(subset) :
                             Count(subset, v) <= Count(words, v)
            ELSE subset = words

\* a request made from 10 different words names 8 different words of them,
\* in another order than the first 8 of the wordbook
C20_Witness ==
    \E i \in DOMAIN storyTasks :
        /\ Len(storyTasks[i].words) = 10
        /\ Cardinality(Range(storyTasks[i].words)) = 10
        /\ Len(storyTasks[i].subset) = 8
        /\ Cardinality(Range(storyTasks[i].subset)) = 8
        /\ storyTasks[i].subset # SubSeq(storyTasks[i].words, 1, 8)

(***************************************************************************)
(* C21, C22 - The displayed story.                                         *)
(***************************************************************************)
\* the parts in order, one after the other
RECURSIVE Concat(_)
Concat(parts) ==
    IF parts = <<>> THEN <<>> ELSE Head(parts) \o Concat(Tail(parts))

\* seg is a {{token}} marker: '{{', a token on one line that holds no
\* '}}', so that the marker ends at its first closing braces, and '}}'
IsToken(seg) ==
    /\ Len(seg) >= 4
    /\ seg[1] = "{" /\ seg[2] = "{"
    /\ seg[Len(seg) - 1] = "}" /\ seg[Len(seg)] = "}"
    /\ \A k \in 3 .. Len(seg) - 2 : seg[k] \notin LineTerminators
    /\ \A k \in 3 .. Len(seg) - 2 : ~(seg[k] = "}" /\ seg[k + 1] = "}")

\* seg holds a {{token}} marker somewhere
HasToken(seg) ==
    \E a, b \in DOMAIN seg : a < b /\ IsToken(SubSeq(seg, a, b))

\* what 'The {{cat}} sat on the {{mat}}.' is rendered as
ExampleRendering ==
    <<[kind |-> "span", text |-> <<"T", "h", "e", " ">>],
      [kind |-> "QuizBlank", word |-> <<"c", "a", "t">>],
      [kind |-> "span",
       text |-> <<" ", "s", "a", "t", " ", "o", "n", " ", "t", "h", "e",
                  " ">>],
      [kind |-> "QuizBlank", word |-> <<"m", "a", "t">>],
      [kind |-> "span", text |-> <<".">>]>>

\* C21: the parts of a displayed story, in order, make up its text; a part
\* is rendered as a blank if and only if it is a {{token}} marker, with the
\* token as the word of the blank; every other part is rendered as literal
\* text, verbatim, and holds no marker; the example text gives the blanks
\* cat and mat between its three literals.
C21_StoryRendering ==
    storyQuiz # Null =>
        LET content == storyQuiz[1].content
            parts == Split(content)
            out == RenderStoryContent(content)
        IN  /\ Concat(parts) = content
            /\ Len(out) = Len(parts)
            /\ \A i \in DOMAIN parts :
                   /\ out[i].kind = "QuizBlank" <=> IsToken(parts[i])
                   /\ out[i].kind = "QuizBlank" =>
                          out[i].word = SubSeq(parts[i], 3, Len(parts[i]) - 2)
                   /\ out[i].kind # "QuizBlank" =>
                          /\ out[i] = [kind |-> "span", text |-> parts[i]]
                          /\ ~HasToken(parts[i])
            /\ content = ExampleContent => out = ExampleRendering

\* C22: as long as the story stays the displayed story, a revealed blank
\* stays revealed, whatever the step.
C22_RevealOneWay ==
    [][storyQuiz # Null /\ storyQuiz' = storyQuiz =>
          revealed \subseteq revealed']_vars

(***************************************************************************)
(* C23 - The words of a story.                                             *)
(***************************************************************************)
\* the position of the first item of items that holds the word w
FirstOccurrence(items, w) ==
    CHOOSE i \in DOMAIN items :
        items[i].word = w /\ \A j \in 1 .. i - 1 : items[j].word # w

\* C23: a step that issues a story request starts from a collection that
\* is not empty, and the word list of the request holds every word of the
\* saved items, each once, in the order in which the words first appear
\* in the collection.
C23_CandidateWords ==
    [][Len(storyTasks') > Len(storyTasks) =>
          LET words == storyTasks'[Len(storyTasks')].words
          IN  /\ savedItems # <<>>
              /\ Range(words) = {savedItems[i].word : i \in DOMAIN savedItems}
              /\ \A a, b \in DOMAIN words :
                     a < b => /\ words[a] # words[b]
                              /\ FirstOccurrence(savedItems, words[a])
                                     < FirstOccurrence(savedItems, words[b])
      ]_vars

\* a story request is pending that was made from three saved items, the
\* first and the last with one word and the second with another, and
\* names the word of the first item before the word of the second
C23_Witness ==
    /\ Len(storyTasks) = 1
    /\ Len(savedItems) = 3
    /\ savedItems[1].word = savedItems[3].word
    /\ savedItems[1].word # savedItems[2].word
    /\ storyTasks[1].words = <<savedItems[1].word, savedItems[2].word>>

(***************************************************************************)
(* C24 - The two views.                                                    *)
(***************************************************************************)
\* C24: the view is 'search' or 'wordbook', and a step that changes the
\* view leaves the definition, the gallery, the active index, the
\* feedback, the additional meanings, the chat transcript and the saved
\* collection as they are.
C24_ViewSwitchFrame ==
    /\ [](view \in {"search", "wordbook"})
    /\ [][view' # view =>
              UNCHANGED <<wordData, gallery, activeImageIndex,
                          imageFeedbacks, additionalMeanings, chatMessages,
                          savedItems>>]_vars

\* the wordbook view, entered with a rated image, revealed meanings, a
\* chat transcript and a saved item
C24_Witness ==
    /\ view = "wordbook"
    /\ wordData # Null
    /\ gallery # <<>>
    /\ imageFeedbacks # EmptyMap
    /\ additionalMeanings # Null
    /\ additionalMeanings[1] # <<>>
    /\ chatMessages # <<>>
    /\ savedItems # <<>>

(***************************************************************************)
(* C25 - A failed definition request.                                      *)
(***************************************************************************)
\* C25: when the definition request of the latest search fails, the step
\* ends with the definition absent, the gallery empty and loadingWord and
\* loadingImage cleared.
C25_FailedSearchShowsNothing ==
    [][detailsResult = "pending" /\ detailsResult' = "rejected" =>
          /\ wordData' = Null
          /\ gallery' = <<>>
          /\ ~loadingWord'
          /\ ~loadingImage']_vars

(***************************************************************************)
(* C26, C27 - The additional meanings.                                     *)
(***************************************************************************)
\* C26: a response without text gives the empty list and a failed request
\* gives nothing; while a request is pending the additional meanings are
\* absent, and the step in which its response arrives clears
\* loadingMoreMeanings, sets the additional meanings to a list or leaves
\* them absent, keeps the application running and leaves the definition,
\* the gallery, the feedback and the chat transcript as they are.
C26_MeaningsDegrade ==
    /\ [](/\ GetAdditionalMeanings([kind |-> "notext"]) = Some(<<>>)
          /\ GetAdditionalMeanings([kind |-> "error"]) = Null
          /\ GetAdditionalMeanings([kind |-> "malformed"]) = Null
          /\ meanTask # Null => additionalMeanings = Null)
    /\ [][meanTask # Null /\ meanTask' = Null =>
              /\ ~loadingMoreMeanings'
              /\ additionalMeanings' \in
                     {Null} \cup {Some(m) : m \in MeaningLists}
              /\ appState' = "running"
              /\ UNCHANGED <<wordData, gallery, imageFeedbacks,
                              chatMessages>>]_vars

\* a response without text has arrived: the additional meanings are the
\* empty list, next to a rated image and a chat transcript
C26_Witness ==
    /\ additionalMeanings = Some(<<>>)
    /\ meanTask = Null
    /\ ~loadingMoreMeanings
    /\ wordData # Null
    /\ imageFeedbacks # EmptyMap
    /\ chatMessages # <<>>

\* C27: once the additional meanings are present, as a list of any length,
\* no request for them is pending or issued and they stay as they are
\* until the next search; so between two searches at most one result is
\* committed.
C27_OneBatchPerSearch ==
    /\ [](additionalMeanings # Null =>
              /\ meanTask = Null
              /\ ~MeaningsButtonEnabled)
    /\ [][additionalMeanings # Null /\ searchGen' = searchGen =>
              /\ additionalMeanings' = additionalMeanings
              /\ meanTask' = Null]_vars

\* the empty list has been committed for the word on display, and the
\* button is enabled in every other respect
C27_Witness ==
    /\ additionalMeanings = Some(<<>>)
    /\ view = "search"
    /\ wordData # Null
    /\ ~loadingMoreMeanings
    /\ searchGen = MaxSearches

(***************************************************************************)
(* C28 - The image gateway.                                                *)
(***************************************************************************)
\* C28: whatever the image service answers, generateWordImage returns a
\* reference: the data URL of the bytes when there are bytes, the empty
\* reference otherwise; the gallery never holds the empty reference, and
\* the application keeps running when an image response arrives.
C28_ImageNeverThrows ==
    /\ [](/\ \A r \in ImageResponses :
                 IF r.kind = "bytes" /\ r.value # ""
                 THEN GenerateWordImage(r) =
                          "data:image/jpeg;base64," \o r.value
                 ELSE GenerateWordImage(r) = ""
          /\ \A i \in DOMAIN gallery : gallery[i] # "")
    /\ [][(searchTasks' # searchTasks \/ varTask' # varTask) =>
              appState' = "running"]_vars

\* the image request of the search has returned the empty reference, the
\* definition is shown and the gallery is empty
C28_Witness ==
    /\ imageResult = Some("")
    /\ detailsResult = "resolved"
    /\ searchTasks = {}
    /\ wordData # Null
    /\ gallery = <<>>

(***************************************************************************)
(* C30 - The loading flags.                                                *)
(***************************************************************************)
\* no loading flag is set
AllIdle ==
    /\ ~loadingWord /\ ~loadingImage /\ ~loadingNewImage
    /\ ~loadingMoreMeanings /\ ~loadingAudio /\ ~loadingStory
    /\ ~isChatSending

\* C30: every issued request being settled in the end, if from some point
\* on the user does nothing more, then from some point on no loading flag
\* is set.
C30_FlagsEventuallyCleared ==
    <>[][~RequestNext]_vars => <>[]AllIdle

\* the seven loading flags are set at once
C30_Witness ==
    /\ loadingWord /\ loadingImage /\ loadingNewImage
    /\ loadingMoreMeanings /\ loadingAudio /\ loadingStory
    /\ isChatSending

(***************************************************************************)
(* C29 - The writers of the collection.                                    *)
(***************************************************************************)
\* C29: a step that changes savedItems is a save, taken in the search view
\* on a displayed word, or a removal, taken in the wordbook view, and
\* changes nothing of the view, the query, the session, the loading flags,
\* the pending requests, the story and the languages; so a search, a
\* response, a variation, a thumbnail, a feedback, the meanings, a chat
\* message, a story, a language switch and a view switch all leave
\* savedItems as it is.
C29_SingleWriterPath ==
    [][savedItems' # savedItems =>
          /\ UNCHANGED <<view, query, chatInput, sessionVars, loadingVars,
                         taskVars, historyVars, storyVars, languageVars,
                         audioVars>>
          /\ \/ /\ view = "search"
                /\ wordData # Null
                /\ \E t, u \in ClockReadings :
                       savedItems' = <<NewItem(t, u)>> \o savedItems
             \/ /\ view = "wordbook"
                /\ \E id \in IdInputs :
                       savedItems' = RemoveSavedItem(savedItems, id)]_vars

\* the last search of the run found no word and an item that was in the
\* collection before it still is, a story having been generated and the
\* native language switched as well
C29_Witness ==
    /\ savedItems # <<>>
    /\ searchGen = MaxSearches
    /\ searchTasks = {}
    /\ wordData = Null
    /\ nativeLanguage = "Spanish"
    /\ storyQuiz # Null

(***************************************************************************)
(* C31, C32 - The gallery between two searches.                            *)
(***************************************************************************)
\* C31: while no search is started the gallery only grows, by at most one
\* entry at its end a step: every entry stays where it is.
C31_GalleryAppendOnly ==
    [][searchGen' = searchGen =>
          /\ Len(gallery') \in {Len(gallery), Len(gallery) + 1}
          /\ \A i \in DOMAIN gallery : gallery'[i] = gallery[i]]_vars

\* C32: when the gallery is non-empty the active index is one of its
\* indices, so that the displayed image is defined.
C32_ActiveIndexValid ==
    gallery # <<>> =>
        /\ activeImageIndex \in 0 .. Len(gallery) - 1
        /\ currentImage # Null

(***************************************************************************)
(* C33 - The word and the image of a saved item.                           *)
(***************************************************************************)
\* C33: a step that adds an item to the collection saves a displayed image
\* that was requested under the search that produced the displayed word,
\* so that no saved item pairs a word with the image of another search.
C33_SavedPairSameSearch ==
    [][Len(savedItems') > Len(savedItems) =>
          /\ activeImageIndex + 1 \in DOMAIN galleryGen
          /\ galleryGen[activeImageIndex + 1] = wordGen]_vars

(***************************************************************************)
(* C34 - The identifiers of the saved items.                               *)
(***************************************************************************)
\* C34: the identifiers of the saved items are pairwise distinct, and a
\* step removes at most one item from the collection.
C34_DistinctIds ==
    /\ [](\A i, j \in DOMAIN savedItems :
              i # j => savedItems[i].id # savedItems[j].id)
    /\ [][Len(savedItems') >= Len(savedItems) - 1]_vars

(***************************************************************************)
(* C35 - The lock of the search control.                                   *)
(***************************************************************************)
\* C35: while the definition request of the latest search is pending,
\* loadingWord is set and the search control is locked, and at most one
\* definition request is in flight.
C35_SearchLocked ==
    /\ (\E t \in searchTasks : t.gen = searchGen /\ t.pc = "awaitDetails")
           => (loadingWord /\ ~SearchEnabled)
    /\ Cardinality({t \in searchTasks : t.pc = "awaitDetails"}) <= 1

(***************************************************************************)
(* C36 - The roles of the chat transcript.                                 *)
(***************************************************************************)
\* C36: the chat transcript begins with a user message and its roles
\* alternate: the odd messages are the user's, the even ones the model's.
C36_TranscriptAlternates ==
    \A i \in DOMAIN chatMessages :
        chatMessages[i].role = (IF i % 2 = 1 THEN "user" ELSE "model")

====
